---- MODULE Spec2Model ----
(***************************************************************************)
(* buscore-lighthouse: a Cloudflare Worker that proxies an update manifest,*)
(* counts update checks / downloads / errors per UTC day in the D1 table   *)
(* metrics_daily, answers GET /report and posts a daily Discord summary.   *)
(*                                                                         *)
(* A Date is modelled by its day number (days since 1970-01-01 UTC); the   *)
(* time of day never reaches a day key.  A string is the sequence of its   *)
(* character codes, so that SQLite's TEXT comparison (bytewise) and        *)
(* toISOString().slice(0, 10) are computed, not assumed.                   *)
(***************************************************************************)
EXTENDS Integers, Sequences, FiniteSets, TLC

\* ------------------------------------------------------------------ bounds
\* Number of inbound HTTP requests handled in one behaviour.
NumRequests == 2
\* Day number of the clock in the initial state (20147 = 2025-02-28).
FirstDay == 20147
\* How many times UTC midnight passes in one behaviour.
MaxTicks == 1
\* First day number and length of the window of reference dates of the
\* calendar specification (19692 = 2023-12-01; the window reaches 2025-03).
DateLo == 19692
DateSpan == 480
\* The range-sum specification: first day number of its rows (20096 =
\* 2025-01-08), the number of consecutive days they may lie on, and the
\* number of increments applied to them.
RangeLo == 20096
RangeDays == 3
MaxIncrements == 2

\* ------------------------------------------------------- character codes
ChDash == 45
ChDot == 46
Ch0 == 48
ChColon == 58
ChT == 84
ChZ == 90

\* ------------------------------------------------ ECMAScript Date (UTC)
DayFromYear(y) ==
  365 * (y - 1970) + ((y - 1969) \div 4) - ((y - 1901) \div 100) + ((y - 1601) \div 400)

DaysInYear(y) ==
  IF y % 4 # 0 THEN 365
  ELSE IF y % 100 # 0 THEN 366
  ELSE IF y % 400 # 0 THEN 365
  ELSE 366

\* getUTCFullYear: the year whose first day is the latest one not after t.
getUTCFullYear(t) ==
  CHOOSE y \in (1970 + (t \div 366) - 1)..(1970 + (t \div 365) + 1) :
    DayFromYear(y) <= t /\ t < DayFromYear(y + 1)

\* Days of the year before month m (0..11) begins.
DaysBeforeMonth(m, leap) ==
  CASE m = 0 -> 0
    [] m = 1 -> 31
    [] m = 2 -> 59 + leap
    [] m = 3 -> 90 + leap
    [] m = 4 -> 120 + leap
    [] m = 5 -> 151 + leap
    [] m = 6 -> 181 + leap
    [] m = 7 -> 212 + leap
    [] m = 8 -> 243 + leap
    [] m = 9 -> 273 + leap
    [] m = 10 -> 304 + leap
    [] m = 11 -> 334 + leap
    [] m = 12 -> 365 + leap

InLeapYear(t) == DaysInYear(getUTCFullYear(t)) - 365

DayWithinYear(t) == t - DayFromYear(getUTCFullYear(t))

\* getUTCMonth: 0..11.
getUTCMonth(t) ==
  LET leap == InLeapYear(t)
      day == DayWithinYear(t)
  IN  CHOOSE m \in 0..11 :
        DaysBeforeMonth(m, leap) <= day /\ day < DaysBeforeMonth(m + 1, leap)

\* getUTCDate: 1..31.
getUTCDate(t) ==
  DayWithinYear(t) - DaysBeforeMonth(getUTCMonth(t), InLeapYear(t)) + 1

\* MakeDay(year, month, date): the date may lie outside the month (0, -5, 32);
\* the result is the day that many days from the first of the month.
MakeDay(year, month, date) ==
  LET ym == year + (month \div 12)
      mn == month % 12
  IN  DayFromYear(ym) + DaysBeforeMonth(mn, DaysInYear(ym) - 365) + date - 1

\* Date.UTC(year, month, day)
DateUTC(year, month, day) == MakeDay(year, month, day)

\* A day of month below 1 clamped to 1 instead of rolling into the month before.
setUTCDateClamped(t, n) ==
  MakeDay(getUTCFullYear(t), getUTCMonth(t), IF n < 1 THEN 1 ELSE n)

\* date.setUTCDate(n): same year and month, day of month n (rolls over).
setUTCDate(t, n) == MakeDay(getUTCFullYear(t), getUTCMonth(t), n)

\* Decimal digits of n, zero-padded on the left to at least w characters.
RECURSIVE PadStart(_, _)
PadStart(n, w) ==
  IF w <= 1 /\ n < 10 THEN <<Ch0 + n>>
  ELSE Append(PadStart(n \div 10, w - 1), Ch0 + (n % 10))

\* toISOString(): "YYYY-MM-DDTHH:mm:ss.sssZ" for years 0..9999 (the time of
\* day is not modelled and printed as midnight).
toISOString(t) ==
  PadStart(getUTCFullYear(t), 4) \o <<ChDash>> \o
  PadStart(getUTCMonth(t) + 1, 2) \o <<ChDash>> \o
  PadStart(getUTCDate(t), 2) \o
  <<ChT, Ch0, Ch0, ChColon, Ch0, Ch0, ChColon, Ch0, Ch0, ChDot, Ch0, Ch0, Ch0, ChZ>>

\* slice(0, n) of a string.
Slice0(s, n) == SubSeq(s, 1, IF n < Len(s) THEN n ELSE Len(s))

\* utcDay(date): the UTC date as YYYY-MM-DD.
utcDay(t) == Slice0(toISOString(t), 10)

\* utcMonthStart(date): first day of the UTC month containing date.
utcMonthStart(t) ==
  Slice0(toISOString(DateUTC(getUTCFullYear(t), getUTCMonth(t), 1)), 10)

\* yesterdayDate.setUTCDate(yesterdayDate.getUTCDate() - 1)
YesterdayOf(t) == utcDay(setUTCDate(t, getUTCDate(t) - 1))

\* sevenDaysAgoDate.setUTCDate(sevenDaysAgoDate.getUTCDate() - 6)
SevenDaysAgoOf(t) == utcDay(setUTCDate(t, getUTCDate(t) - 6))

\* ------------------------------------------- SQLite TEXT comparison (BINARY)
StrLT(a, b) ==
  \/ /\ Len(a) < Len(b)
     /\ \A j \in 1..Len(a) : a[j] = b[j]
  \/ \E i \in 1..(IF Len(a) < Len(b) THEN Len(a) ELSE Len(b)) :
       /\ a[i] < b[i]
       /\ \A j \in 1..(i - 1) : a[j] = b[j]

StrLE(a, b) == a = b \/ StrLT(a, b)

\* --------------------------------------------------------- metrics_daily
Columns == {"update_checks", "downloads", "errors"}

\* A freshly inserted row: VALUES (?,0,0,0).
ZeroRow(day) == [day |-> day, update_checks |-> 0, downloads |-> 0, errors |-> 0]

ZeroTotals == [update_checks |-> 0, downloads |-> 0, errors |-> 0]

\* A plain INSERT with no conflict clause and no key to stop it.
InsertAlways(t, day) == t \cup {ZeroRow(day)}

\* INSERT OR REPLACE: an existing row is overwritten by the all-zero row.
InsertOrReplace(t, day) == {r \in t : r.day # day} \cup {ZeroRow(day)}

\* INSERT INTO metrics_daily(...) VALUES (?,0,0,0) ON CONFLICT(day) DO NOTHING
InsertIfAbsent(t, day) ==
  IF \E r \in t : r.day = day THEN t ELSE t \cup {ZeroRow(day)}

\* The UPDATE without its WHERE clause.
UpdateEveryRow(t, day, col) == {[r EXCEPT ![col] = @ + 1] : r \in t}

\* UPDATE metrics_daily SET col = col + 1 WHERE day = ?
UpdateIncrement(t, day, col) ==
  {IF r.day = day THEN [r EXCEPT ![col] = @ + 1] ELSE r : r \in t}

\* SUM(col) over a set of rows; 0 stands for COALESCE(NULL, 0) on no rows.
RECURSIVE SumColumn(_, _)
SumColumn(rows, col) ==
  IF rows = {} THEN 0
  ELSE LET r == CHOOSE x \in rows : TRUE
       IN  r[col] + SumColumn(rows \ {r}, col)

\* The range with its end day left out: day < ?.
RowsInRangeExclusiveEnd(t, startDay, endDay) ==
  {r \in t : StrLE(startDay, r.day) /\ StrLT(r.day, endDay)}

\* WHERE day >= ? AND day <= ?
RowsInRange(t, startDay, endDay) ==
  {r \in t : StrLE(startDay, r.day) /\ StrLE(r.day, endDay)}

\* queryTotals(db, startDay, endDay)
queryTotals(t, startDay, endDay) ==
  [c \in Columns |-> SumColumn(RowsInRange(t, startDay, endDay), c)]

\* ------------------------------------------------------------ JSON values
JNull == [t |-> "null"]
JBool(b) == [t |-> "boolean", b |-> b]
JNumber(n) == [t |-> "number", n |-> n]
JString(s) == [t |-> "string", s |-> s]
JObject(o) == [t |-> "object", o |-> o]
Undefined == [t |-> "undefined"]

\* JavaScript truthiness: !v is true for null, undefined, false, 0 and "".
Truthy(v) ==
  CASE v.t = "null" -> FALSE
    [] v.t = "undefined" -> FALSE
    [] v.t = "boolean" -> v.b
    [] v.t = "number" -> v.n # 0
    [] v.t = "string" -> v.s # ""
    [] OTHER -> TRUE

\* v?.key: undefined on null and undefined, and on a value without the key.
OptGet(v, key) ==
  IF v.t = "object" /\ key \in DOMAIN v.o THEN v.o[key] ELSE Undefined

\* a || b
CoalesceOr(a, b) == IF Truthy(a) THEN a ELSE b

\* a ?? b
Coalesce(a, b) == IF a.t \in {"null", "undefined"} THEN b ELSE a

\* ------------------------------------------------------------- manifest
UrlY == "https://x/y.zip"
UrlZ == "https://x/z.zip"
\* Strings the URL parser accepts as absolute URLs.
ParsesAsURL(s) == s \in {UrlY, UrlZ}

NetworkError == [kind |-> "network_error"]
HttpResponse(status, body) == [kind |-> "response", status |-> status, body |-> body]
\* A response body is JSON text (carried as the value it parses to) or not.
NotJson == [json |-> FALSE]
JsonBody(v) == [json |-> TRUE, value |-> v]

\* res.ok
ResOk(res) == res.status >= 200 /\ res.status <= 299

\* fetchManifest(url): the parsed body, or null on any failure.
fetchManifest(outcome) ==
  IF outcome.kind = "network_error" THEN JNull
  ELSE IF ~ResOk(outcome) THEN JNull
  ELSE IF ~outcome.body.json THEN JNull
  ELSE outcome.body.value

\* What the manifest URL answers in the concurrent specifications: no
\* response, or a manifest with a download URL.
ManifestOutcomes ==
  { NetworkError,
    HttpResponse(200, JsonBody(JObject([latest |-> JObject([url |-> JString(UrlZ)])]))) }

\* A string that is not an absolute URL.
NotAUrl == "y.zip"

\* An object with key k, or without it when v is undefined.
Field(k, v) == IF v.t = "undefined" THEN <<>> ELSE (k :> v)

\* What can stand at a url key: nothing, null, a non-string, the empty
\* string, a URL, a string that is no URL.
UrlValues(url) ==
  {Undefined, JNull, JBool(TRUE), JString(""), JString(url), JString(NotAUrl)}

\* What can stand at latest.download: nothing, null, or an object.
DownloadValues ==
  {Undefined, JNull} \cup {JObject(Field("url", v)) : v \in UrlValues(UrlY)}

\* The JSON values a manifest body can parse to: objects with every
\* combination at latest.download.url and latest.url, objects without a
\* latest object, and values that are not objects.
ManifestValues ==
  { JObject("latest" :> JObject(Field("download", d) @@ Field("url", u))) :
      d \in DownloadValues, u \in UrlValues(UrlZ) }
  \cup { JObject(<<>>), JObject("latest" :> JNull) }
  \cup { JNull, JBool(FALSE), JBool(TRUE), JNumber(0), JNumber(1),
         JString(""), JString(NotAUrl) }

\* Status codes around the ends of the success range.
Statuses == {199, 200, 299, 300}

\* Everything the manifest URL can answer.
AllManifestOutcomes ==
  {NetworkError}
  \cup {HttpResponse(st, NotJson) : st \in Statuses}
  \cup {HttpResponse(st, JsonBody(v)) : st \in Statuses, v \in ManifestValues}

\* ------------------------------------------------------------- responses
NoResponse == [kind |-> "none"]
\* The handler's promise rejected: an error reached the invoker.
Thrown == [kind |-> "thrown"]
ErrorResponse(status, error) ==
  [kind |-> "response", status |-> status, body |-> [ok |-> FALSE, error |-> error]]
\* new Response(JSON.stringify(manifest), ...): status 200.
ManifestResponse(m) ==
  [kind |-> "response", status |-> 200, body |-> [json |-> m]]
\* Response.redirect(url, 302) throws a TypeError on an unparsable URL.
Redirect(url) ==
  IF ParsesAsURL(url)
  THEN [kind |-> "response", status |-> 302, body |-> [location |-> url]]
  ELSE Thrown
ReportResponse(totals) ==
  [kind |-> "response", status |-> 200, body |-> totals]

\* GET /update/check, after the counting: lines 89-95.
UpdateCheckResponse(m) ==
  IF ~Truthy(m) THEN ErrorResponse(503, "manifest_unavailable")
  ELSE ManifestResponse(m)

\* manifest?.latest?.download?.url ?? manifest?.latest?.url
LatestUrl(m) ==
  Coalesce(OptGet(OptGet(OptGet(m, "latest"), "download"), "url"),
           OptGet(OptGet(m, "latest"), "url"))

\* GET /download/latest, after the counting: lines 117-128.
DownloadResponse(m) ==
  IF ~Truthy(m) THEN ErrorResponse(503, "manifest_unavailable")
  ELSE IF LatestUrl(m).t # "string" \/ ~Truthy(LatestUrl(m))
       THEN ErrorResponse(503, "manifest_unavailable")
       ELSE Redirect(LatestUrl(m).s)

\* ------------------------------------------------------------------ state
VARIABLES
  now,        \* the clock: day number that new Date() falls on
  adminToken, \* env.ADMIN_TOKEN
  table,      \* metrics_daily: a set of rows
  req,        \* req[p]: the locals of the fetch handler serving request p
  job,        \* the locals of the scheduled handler
  returned,   \* returned[<<day, column>>]: incrementCounter calls that returned
  sums        \* the range sums last taken by the range-sum specification

vars == <<now, adminToken, table, req, job, returned, sums>>

Procs == 1..NumRequests

\* A header or secret that is not set.
Null == "<null>"
Secret == "s3cret"
\* env.ADMIN_TOKEN: unset, empty or a secret.
AdminTokens == {Null, "", Secret}
\* request.headers.get("X-Admin-Token"): missing, empty, wrong or the secret.
HeaderTokens == {Null, "", "wrong", Secret}

\* The requests the environment sends: the three routes, an unknown path and
\* a wrong method; the token header matters on /report only.
CountingInputs ==
  { [method |-> "GET", pathname |-> pa, token |-> Null] :
      pa \in {"/update/check", "/download/latest"} }
UnroutedInputs ==
  { [method |-> "GET", pathname |-> "/other", token |-> Null],
    [method |-> "POST", pathname |-> "/update/check", token |-> Null] }
ReportInputs ==
  { [method |-> "GET", pathname |-> "/report", token |-> tk] : tk \in HeaderTokens }

\* The token comparison without the test for an unset or empty secret.
UnauthorizedCompareOnly(admin, token) == token # admin

\* !env.ADMIN_TOKEN || token !== env.ADMIN_TOKEN
Unauthorized(admin, token) == admin = Null \/ admin = "" \/ token # admin

\* The calls a handler makes to the outside, in the order it makes them.
IncCall(day, column) == [call |-> "incrementCounter", day |-> day, column |-> column]
ManifestCall == [call |-> "fetchManifest"]
QueryCall(q, startDay, endDay) ==
  [call |-> "queryTotals", name |-> q, startDay |-> startDay, endDay |-> endDay]
WebhookCall == [call |-> "webhook"]

NoRanges == <<>>
NoTotals == <<>>

\* Before the manifest fetch has settled.
NotFetched == [kind |-> "not_fetched"]

IdleRequest ==
  [ pc |-> "init", method |-> "", pathname |-> "", token |-> Null,
    today |-> <<>>, counterError |-> FALSE, fetched |-> NotFetched,
    manifest |-> Undefined,
    ranges |-> NoRanges, pending |-> {}, totals |-> NoTotals,
    response |-> NoResponse, log |-> <<>> ]

IdleJob ==
  [ pc |-> "init", today |-> <<>>, ranges |-> NoRanges, pending |-> {},
    totals |-> NoTotals, posted |-> "not_posted", outcome |-> "running",
    log |-> <<>> ]

\* returned with one more call counted for key k.
Count(b, k) == IF k \in DOMAIN b THEN b[k] ELSE 0
CountUp(b, k) == [x \in DOMAIN b \cup {k} |-> IF x = k THEN Count(b, k) + 1 ELSE b[x]]

\* Both endpoints counted in the same column.
PrimaryColumnAlwaysChecks(pathname) == "update_checks"

\* The counter column of a counting endpoint.
PrimaryColumn(pathname) ==
  IF pathname = "/update/check" THEN "update_checks" ELSE "downloads"

\* The response of a counting endpoint once counting is over.
CountingResponse(r) ==
  IF r.pathname = "/update/check" THEN UpdateCheckResponse(r.manifest)
  ELSE DownloadResponse(r.manifest)

\* The handler returns: the response is final.
Finish(r, response) == [r EXCEPT !.pc = "done", !.response = response]

\* Lines 66-68 and the route dispatch: today = utcDay() and the first
\* statement of the matched route, up to its first await.
Dispatch(r, in, clock, admin) ==
  LET r1 == [r EXCEPT !.method = in.method, !.pathname = in.pathname,
                      !.token = in.token, !.today = utcDay(clock)]
  IN  IF in.method = "GET" /\ in.pathname \in {"/update/check", "/download/latest"}
      THEN [r1 EXCEPT !.pc = "inc_insert",
                      !.log = <<IncCall(utcDay(clock), PrimaryColumn(in.pathname))>>]
      ELSE IF in.method = "GET" /\ in.pathname = "/report"
      THEN IF Unauthorized(admin, in.token)
           THEN Finish(r1, ErrorResponse(401, "unauthorized"))
           ELSE [r1 EXCEPT !.pc = "windows"]
      ELSE Finish(r1, ErrorResponse(404, "not_found"))

\* catch { counterError = true } around the primary increment, then the
\* manifest fetch is next.
PrimaryFailed(r) == [r EXCEPT !.counterError = TRUE, !.pc = "manifest"]

\* The primary increment returned: the manifest fetch is next.
PrimaryDone(r) == [r EXCEPT !.pc = "manifest"]

\* The errors increment made whether or not the primary one failed.
AfterManifestAlwaysCounts(r, m) ==
  LET r1 == [r EXCEPT !.manifest = m, !.log = Append(@, ManifestCall)]
  IN  [r1 EXCEPT !.pc = "err_insert",
                 !.log = Append(@, IncCall(r1.today, "errors"))]

\* Lines 79-87: after the manifest fetch, the errors increment if the primary
\* one failed, else the response.
AfterManifest(r, m) ==
  LET r1 == [r EXCEPT !.manifest = m, !.log = Append(@, ManifestCall)]
  IN  IF r1.counterError
      THEN [r1 EXCEPT !.pc = "err_insert",
                      !.log = Append(@, IncCall(r1.today, "errors"))]
      ELSE Finish(r1, CountingResponse(r1))

\* A failed count turned into a 500 answer instead of being swallowed.
AfterErrorsSurfaced(r, ok) ==
  IF ok THEN Finish(r, CountingResponse(r))
  ELSE Finish(r, ErrorResponse(500, "storage_error"))

\* The errors increment returned (ok) or threw into catch { /* best-effort */ }:
\* the response follows either way.
AfterErrors(r, ok) == Finish(r, CountingResponse(r))

\* -------------------------------------------------------- request actions
\* A request from the set inputs is dispatched to its handler.
Receive(p, inputs) ==
  /\ req[p].pc = "init"
  /\ \E in \in inputs :
       req' = [req EXCEPT ![p] = Dispatch(req[p], in, now, adminToken)]
  /\ UNCHANGED <<now, adminToken, table, job, returned, sums>>

\* The INSERT of incrementCounter(env.DB, today, <primary column>).
PrimaryInsert(p) ==
  /\ req[p].pc = "inc_insert"
  /\ \/ /\ table' = InsertIfAbsent(table, req[p].today)
        /\ req' = [req EXCEPT ![p].pc = "inc_update"]
     \/ /\ table' = table
        /\ req' = [req EXCEPT ![p] = PrimaryFailed(req[p])]
  /\ UNCHANGED <<now, adminToken, job, returned, sums>>

\* The UPDATE of incrementCounter(env.DB, today, <primary column>).
PrimaryUpdate(p) ==
  /\ req[p].pc = "inc_update"
  /\ \/ /\ table' = UpdateIncrement(table, req[p].today, PrimaryColumn(req[p].pathname))
        /\ returned' = CountUp(returned, <<req[p].today, PrimaryColumn(req[p].pathname)>>)
        /\ req' = [req EXCEPT ![p] = PrimaryDone(req[p])]
     \/ /\ UNCHANGED <<table, returned>>
        /\ req' = [req EXCEPT ![p] = PrimaryFailed(req[p])]
  /\ UNCHANGED <<now, adminToken, job, sums>>

\* const manifest = await fetchManifest(env.MANIFEST_URL)
\* fetched keeps what the manifest URL answered.
FetchManifestOf(p, outcomes) ==
  /\ req[p].pc = "manifest"
  /\ \E o \in outcomes :
       req' = [req EXCEPT ![p] =
                 [AfterManifest(req[p], fetchManifest(o)) EXCEPT !.fetched = o]]
  /\ UNCHANGED <<now, adminToken, table, job, returned, sums>>

FetchManifest(p) == FetchManifestOf(p, ManifestOutcomes)

\* The same await, with every answer of AllManifestOutcomes possible.
FetchAnyManifest(p) == FetchManifestOf(p, AllManifestOutcomes)

\* The INSERT of incrementCounter(env.DB, today, "errors").
ErrorsInsert(p) ==
  /\ req[p].pc = "err_insert"
  /\ \/ /\ table' = InsertIfAbsent(table, req[p].today)
        /\ req' = [req EXCEPT ![p].pc = "err_update"]
     \/ /\ table' = table
        /\ req' = [req EXCEPT ![p] = AfterErrors(req[p], FALSE)]
  /\ UNCHANGED <<now, adminToken, job, returned, sums>>

\* The UPDATE of incrementCounter(env.DB, today, "errors").
ErrorsUpdate(p) ==
  /\ req[p].pc = "err_update"
  /\ \/ /\ table' = UpdateIncrement(table, req[p].today, "errors")
        /\ returned' = CountUp(returned, <<req[p].today, "errors">>)
        /\ req' = [req EXCEPT ![p] = AfterErrors(req[p], TRUE)]
     \/ /\ UNCHANGED <<table, returned>>
        /\ req' = [req EXCEPT ![p] = AfterErrors(req[p], FALSE)]
  /\ UNCHANGED <<now, adminToken, job, sums>>

\* ------------------------------------------------------------ GET /report
ReportQueries == {"today", "yesterday", "last_7_days", "month_to_date"}

\* Lines 138-153: the ranges of the four queries.  today is the handler's
\* day key of line 68; the other bounds come from todayDate = new Date().
ReportRanges(today, todayDate) ==
  [ today |-> <<today, today>>,
    yesterday |-> <<YesterdayOf(todayDate), YesterdayOf(todayDate)>>,
    last_7_days |-> <<SevenDaysAgoOf(todayDate), today>>,
    month_to_date |-> <<utcMonthStart(todayDate), today>> ]

\* Promise.all([...]) is called: the four queries are issued.
IssueReport(r, clock) ==
  LET rg == ReportRanges(r.today, clock)
  IN  [r EXCEPT !.pc = "queries", !.ranges = rg, !.pending = ReportQueries,
                !.log = <<QueryCall("today", rg.today[1], rg.today[2]),
                          QueryCall("yesterday", rg.yesterday[1], rg.yesterday[2]),
                          QueryCall("last_7_days", rg.last_7_days[1], rg.last_7_days[2]),
                          QueryCall("month_to_date", rg.month_to_date[1], rg.month_to_date[2])>>]

\* f with key k mapped to v.
Put(f, k, v) == [x \in DOMAIN f \cup {k} |-> IF x = k THEN v ELSE f[x]]

\* One query resolved; when it was the last, Promise.all resolves and the
\* handler returns the report.
ReportQueryDone(r, q, result) ==
  LET r1 == [r EXCEPT !.totals = Put(@, q, result), !.pending = @ \ {q}]
  IN  IF r1.pending = {} THEN Finish(r1, ReportResponse(r1.totals)) ELSE r1

\* A rejected query left out of the report instead of failing it.
ReportQueryFailedPartial(r, q) ==
  LET r1 == [r EXCEPT !.pending = @ \ {q}]
  IN  IF r1.pending = {} THEN Finish(r1, ReportResponse(r1.totals)) ELSE r1

\* One query rejected: Promise.all rejects and nothing catches it.
ReportQueryFailed(r, q) == Finish([r EXCEPT !.pending = {}], Thrown)

ReportWindows(p) ==
  /\ req[p].pc = "windows"
  /\ req' = [req EXCEPT ![p] = IssueReport(req[p], now)]
  /\ UNCHANGED <<now, adminToken, table, job, returned, sums>>

ReportQuery(p) ==
  /\ req[p].pc = "queries"
  /\ \E q \in req[p].pending :
       \/ req' = [req EXCEPT ![p] =
                    ReportQueryDone(req[p], q,
                      queryTotals(table, req[p].ranges[q][1], req[p].ranges[q][2]))]
       \/ req' = [req EXCEPT ![p] = ReportQueryFailed(req[p], q)]
  /\ UNCHANGED <<now, adminToken, table, job, returned, sums>>

\* ---------------------------------------------------------- scheduled job
JobQueries == {"yesterday", "last_7_days", "month_to_date"}

\* Lines 168-179: every bound comes from the one todayDate = new Date().
JobRanges(todayDate) ==
  [ yesterday |-> <<YesterdayOf(todayDate), YesterdayOf(todayDate)>>,
    last_7_days |-> <<SevenDaysAgoOf(todayDate), utcDay(todayDate)>>,
    month_to_date |-> <<utcMonthStart(todayDate), utcDay(todayDate)>> ]

\* Lines 168-190: the windows, then Promise.all([...]) issues three queries.
IssueJob(j, clock) ==
  LET rg == JobRanges(clock)
  IN  [j EXCEPT !.pc = "queries", !.today = utcDay(clock), !.ranges = rg,
                !.pending = JobQueries,
                !.log = <<QueryCall("yesterday", rg.yesterday[1], rg.yesterday[2]),
                          QueryCall("last_7_days", rg.last_7_days[1], rg.last_7_days[2]),
                          QueryCall("month_to_date", rg.month_to_date[1], rg.month_to_date[2])>>]

\* The job calls incrementCounter(env.DB, today, "errors") from a catch block.
JobCountError(j) ==
  [j EXCEPT !.pc = "err_insert", !.pending = {},
            !.log = Append(@, IncCall(j.today, "errors"))]

\* scheduled() returns.
JobReturn(j) == [j EXCEPT !.pc = "done", !.outcome = "returned"]

\* One query resolved; after the last one the message is posted.
JobQueryDone(j, q, result) ==
  LET j1 == [j EXCEPT !.totals = Put(@, q, result), !.pending = @ \ {q}]
  IN  IF j1.pending = {} THEN [j1 EXCEPT !.pc = "post"] ELSE j1

\* The rejection swallowed without counting it.
JobQueryFailedSilent(j) == JobReturn([j EXCEPT !.pending = {}])

\* Lines 191-198: Promise.all rejected.
JobQueryFailed(j) == JobCountError(j)

\* What the webhook POST can do: succeed, answer a non-success status, or
\* fail in transport.
WebhookOutcomes == {"ok", "bad_status", "network_error"}

\* The POST without the test of res.ok: only a transport error is counted.
JobAfterPostIgnoresStatus(j, w) ==
  LET j1 == [j EXCEPT !.log = Append(@, WebhookCall)]
  IN  IF w \in {"ok", "bad_status"} THEN JobReturn(j1) ELSE JobCountError(j1)

\* Lines 219-232: the POST, and the catch around it.
JobAfterPost(j, w) ==
  LET j1 == [j EXCEPT !.log = Append(@, WebhookCall)]
  IN  IF w = "ok" THEN JobReturn(j1) ELSE JobCountError(j1)

\* The errors increment without a catch around it: its error leaves the job.
JobAfterErrorsUncaught(j, ok) ==
  IF ok THEN JobReturn(j) ELSE [j EXCEPT !.pc = "done", !.outcome = "thrown"]

\* The errors increment returned (ok) or threw into catch { /* best-effort */ }:
\* the job returns either way.
JobAfterErrors(j, ok) == JobReturn(j)

JobStart ==
  /\ job.pc = "init"
  /\ job' = IssueJob(job, now)
  /\ UNCHANGED <<now, adminToken, table, req, returned, sums>>

JobQuery ==
  /\ job.pc = "queries"
  /\ \E q \in job.pending :
       \/ job' = JobQueryDone(job, q,
                   queryTotals(table, job.ranges[q][1], job.ranges[q][2]))
       \/ job' = JobQueryFailed(job)
  /\ UNCHANGED <<now, adminToken, table, req, returned, sums>>

JobPost ==
  /\ job.pc = "post"
  /\ \E w \in WebhookOutcomes :
       job' = [JobAfterPost(job, w) EXCEPT !.posted = w]
  /\ UNCHANGED <<now, adminToken, table, req, returned, sums>>

JobErrorsInsert ==
  /\ job.pc = "err_insert"
  /\ \/ /\ table' = InsertIfAbsent(table, job.today)
        /\ job' = [job EXCEPT !.pc = "err_update"]
     \/ /\ table' = table
        /\ job' = JobAfterErrors(job, FALSE)
  /\ UNCHANGED <<now, adminToken, req, returned, sums>>

JobErrorsUpdate ==
  /\ job.pc = "err_update"
  /\ \/ /\ table' = UpdateIncrement(table, job.today, "errors")
        /\ returned' = CountUp(returned, <<job.today, "errors">>)
        /\ job' = JobAfterErrors(job, TRUE)
     \/ /\ UNCHANGED <<table, returned>>
        /\ job' = JobAfterErrors(job, FALSE)
  /\ UNCHANGED <<now, adminToken, req, sums>>

\* ------------------------------------------------------------------ clock
\* UTC midnight passes.
Tick ==
  /\ now < FirstDay + MaxTicks
  /\ now' = now + 1
  /\ UNCHANGED <<adminToken, table, req, job, returned, sums>>

\* ---------------------------------------------------------- specification
NoSums == <<>>

\* A fresh deployment: the migration has run, nothing is being served.
Boot ==
  /\ table = {}
  /\ req = [p \in Procs |-> IdleRequest]
  /\ job = IdleJob
  /\ returned = <<>>
  /\ sums = NoSums

\* Any configuration of the admin secret.
Init ==
  /\ now = FirstDay
  /\ adminToken \in AdminTokens
  /\ Boot

\* The admin secret is set; no route but /report reads it.
InitSecret ==
  /\ now = FirstDay
  /\ adminToken = Secret
  /\ Boot

\* The requests are numbered in the order they arrive.
InOrder(p) == \A q \in Procs : q < p => req[q].pc # "init"

\* The requests 2.. are update checks, numbered in the order they arrive.
Writers == Procs \ {1}
WriterInputs == {[method |-> "GET", pathname |-> "/update/check", token |-> Null]}
WriterInOrder(p) == \A q \in Writers : q < p => req[q].pc # "init"

\* Counting and unrouted requests, served concurrently.
NextCounting ==
  \/ \E p \in Procs : InOrder(p) /\ Receive(p, CountingInputs \cup UnroutedInputs)
  \/ \E p \in Procs : PrimaryInsert(p)
  \/ \E p \in Procs : PrimaryUpdate(p)
  \/ \E p \in Procs : FetchManifest(p)
  \/ \E p \in Procs : ErrorsInsert(p)
  \/ \E p \in Procs : ErrorsUpdate(p)
  \/ Tick

SpecCounting == InitSecret /\ [][NextCounting]_vars

\* One GET /report (request 1) served while the other requests count.
NextReport ==
  \/ Receive(1, ReportInputs)
  \/ \E p \in Writers : WriterInOrder(p) /\ Receive(p, WriterInputs)
  \/ \E p \in Procs : PrimaryInsert(p)
  \/ \E p \in Procs : PrimaryUpdate(p)
  \/ \E p \in Procs : FetchManifest(p)
  \/ \E p \in Procs : ErrorsInsert(p)
  \/ \E p \in Procs : ErrorsUpdate(p)
  \/ ReportWindows(1)
  \/ ReportQuery(1)
  \/ Tick

SpecReport == Init /\ [][NextReport]_vars

\* The scheduled job running while requests 2.. count.
NextJob ==
  \/ \E p \in Writers : WriterInOrder(p) /\ Receive(p, WriterInputs)
  \/ \E p \in Procs : PrimaryInsert(p)
  \/ \E p \in Procs : PrimaryUpdate(p)
  \/ \E p \in Procs : FetchManifest(p)
  \/ \E p \in Procs : ErrorsInsert(p)
  \/ \E p \in Procs : ErrorsUpdate(p)
  \/ JobStart
  \/ JobQuery
  \/ JobPost
  \/ JobErrorsInsert
  \/ JobErrorsUpdate
  \/ Tick

SpecJob == InitSecret /\ [][NextJob]_vars

\* Reference dates of the scheduled job: every day of a window that holds
\* month ends, a year end and the February of a leap and of a common year.
InitCalendar ==
  /\ now \in DateLo..(DateLo + DateSpan)
  /\ adminToken = Secret
  /\ Boot

NextCalendar == JobStart

SpecCalendar == InitCalendar /\ [][NextCalendar]_vars

\* ------------------------------------------------- range sums over a table
RangeDaySet == RangeLo..(RangeLo + RangeDays - 1)

\* Every counter of every row, added up.
TotalCount(t) ==
  SumColumn(t, "update_checks") + SumColumn(t, "downloads") + SumColumn(t, "errors")

\* The first statement of incrementCounter on some day.
RunInsert ==
  /\ sums = NoSums
  /\ \E d \in RangeDaySet : table' = InsertIfAbsent(table, utcDay(d))
  /\ UNCHANGED <<now, adminToken, req, job, returned, sums>>

\* The second statement of incrementCounter on some day and column.
RunUpdate ==
  /\ sums = NoSums
  /\ TotalCount(table) < MaxIncrements
  /\ \E d \in RangeDaySet, col \in Columns :
       table' = UpdateIncrement(table, utcDay(d), col)
  /\ UNCHANGED <<now, adminToken, req, job, returned, sums>>

\* queryTotals over [a, b], over [day after b, c] and over [a, c].
SumRanges ==
  /\ sums = NoSums
  /\ \E a, b, c \in RangeDaySet :
       /\ a <= b /\ b < c
       /\ sums' = [ a |-> utcDay(a), b |-> utcDay(b), c |-> utcDay(c),
                    left |-> queryTotals(table, utcDay(a), utcDay(b)),
                    right |-> queryTotals(table, utcDay(b + 1), utcDay(c)),
                    whole |-> queryTotals(table, utcDay(a), utcDay(c)) ]
  /\ UNCHANGED <<now, adminToken, table, req, job, returned>>

InitTotals ==
  /\ now = RangeLo
  /\ adminToken = Secret
  /\ Boot

NextTotals == RunInsert \/ RunUpdate \/ SumRanges

SpecTotals == InitTotals /\ [][NextTotals]_vars

\* One counting request against every answer of the manifest URL.
NextManifest ==
  \/ Receive(1, CountingInputs)
  \/ PrimaryInsert(1)
  \/ PrimaryUpdate(1)
  \/ FetchAnyManifest(1)
  \/ ErrorsInsert(1)
  \/ ErrorsUpdate(1)

SpecManifest == InitSecret /\ [][NextManifest]_vars

\* One request of any kind (request 1) served while the other requests count.
NextFrame ==
  \/ Receive(1, CountingInputs \cup UnroutedInputs \cup ReportInputs)
  \/ \E p \in Writers : WriterInOrder(p) /\ Receive(p, WriterInputs)
  \/ \E p \in Procs : PrimaryInsert(p)
  \/ \E p \in Procs : PrimaryUpdate(p)
  \/ \E p \in Procs : FetchManifest(p)
  \/ \E p \in Procs : ErrorsInsert(p)
  \/ \E p \in Procs : ErrorsUpdate(p)
  \/ ReportWindows(1)
  \/ ReportQuery(1)
  \/ Tick

SpecFrame == InitSecret /\ [][NextFrame]_vars

\* ================================================================ claims
\* The day keys in use: of the rows, of the counted calls and of the requests.
KnownDays ==
  {r.day : r \in table} \cup {k[1] : k \in DOMAIN returned}
    \cup {req[p].today : p \in {q \in Procs : req[q].pc # "init"}}

\* The handler serving p is a counting endpoint.
IsCounting(r) ==
  r.method = "GET" /\ r.pathname \in {"/update/check", "/download/latest"}

\* C1: on every day and for every counter, the range sum over that single
\* day equals the number of incrementCounter calls for that day and counter
\* that returned, whatever the interleaving of the calls' INSERT and UPDATE
\* statements: no increment is lost or applied twice, and a counter nobody
\* incremented reads 0.
C1_SumEqualsIncrements ==
  \A d \in KnownDays : \A c \in Columns :
    queryTotals(table, d, d)[c] = Count(returned, <<d, c>>)

\* Two requests counted update_checks on the same day: the sum reads 2, 0, 0.
C1_Witness ==
  \E d \in KnownDays :
    /\ Count(returned, <<d, "update_checks">>) = 2
    /\ queryTotals(table, d, d) = [update_checks |-> 2, downloads |-> 0, errors |-> 0]

\* Request p's primary increment returned on day d for column c.
Counted(p, d, c) ==
  /\ req[p].method = "GET"
  /\ \/ req[p].pathname = "/update/check" /\ c = "update_checks"
     \/ req[p].pathname = "/download/latest" /\ c = "downloads"
  /\ req[p].today = d
  /\ req[p].pc \in {"manifest", "err_insert", "err_update", "done"}
  /\ ~req[p].counterError

\* C2: each GET /update/check (GET /download/latest) whose storage writes
\* succeed raises update_checks (downloads) of its day's row by exactly one,
\* whatever the manifest fetch does: the counter equals the number of such
\* requests, each made a single increment call, and one whose manifest fetch
\* failed is answered 503 manifest_unavailable all the same.
C2_CountedOncePerRequest ==
  /\ \A d \in KnownDays : \A c \in {"update_checks", "downloads"} :
       queryTotals(table, d, d)[c] = Cardinality({p \in Procs : Counted(p, d, c)})
  /\ \A p \in Procs :
       (IsCounting(req[p]) /\ req[p].pc = "done" /\ ~req[p].counterError) =>
         /\ Len(req[p].log) = 2
         /\ req[p].log[1].call = "incrementCounter"
         /\ req[p].log[2] = ManifestCall
         /\ (req[p].manifest = JNull =>
               req[p].response = ErrorResponse(503, "manifest_unavailable"))

\* A GET /update/check answered 503 whose count is in the table.
C2_Witness ==
  \E p \in Procs :
    /\ req[p].pathname = "/update/check" /\ req[p].pc = "done"
    /\ ~req[p].counterError /\ req[p].manifest = JNull
    /\ req[p].response = ErrorResponse(503, "manifest_unavailable")
    /\ queryTotals(table, req[p].today, req[p].today)["update_checks"] = 1

\* The request carries no token that passes: the header is missing, differs
\* from the secret, or the secret is unset or empty.
BadToken(r) ==
  r.token = Null \/ r.token # adminToken \/ adminToken = "" \/ adminToken = Null

\* C3: a GET /report without a passing token is answered 401 unauthorized at
\* once: it never reaches the window computation or a range query, holds no
\* totals and has made no call to the Counter Store.
C3_UnauthorizedReportTouchesNothing ==
  \A p \in Procs :
    (req[p].method = "GET" /\ req[p].pathname = "/report" /\ BadToken(req[p])) =>
      /\ req[p].pc = "done"
      /\ req[p].response = ErrorResponse(401, "unauthorized")
      /\ req[p].log = <<>>
      /\ req[p].ranges = NoRanges /\ req[p].pending = {} /\ req[p].totals = NoTotals

\* An empty header against an empty secret is refused.
C3_Witness ==
  \E p \in Procs :
    /\ req[p].pathname = "/report" /\ req[p].token = "" /\ adminToken = ""
    /\ req[p].pc = "done"
    /\ req[p].response = ErrorResponse(401, "unauthorized")

\* C4: two requests to the same counting endpoint that got the same manifest
\* result are answered identically, whether or not their increments failed,
\* and every finished counting request has been answered.
C4_ResponseIgnoresStorage ==
  /\ \A p \in Procs :
       (IsCounting(req[p]) /\ req[p].pc = "done") => req[p].response.kind = "response"
  /\ \A p, q \in Procs :
       ( /\ IsCounting(req[p]) /\ IsCounting(req[q])
         /\ req[p].pc = "done" /\ req[q].pc = "done"
         /\ req[p].pathname = req[q].pathname
         /\ req[p].manifest = req[q].manifest )
       => req[p].response = req[q].response

\* Same endpoint, same manifest, one increment failed and one did not.
C4_Witness ==
  \E p, q \in Procs :
    /\ IsCounting(req[p]) /\ IsCounting(req[q])
    /\ req[p].pc = "done" /\ req[q].pc = "done"
    /\ req[p].pathname = req[q].pathname
    /\ req[p].manifest = req[q].manifest
    /\ req[p].counterError /\ ~req[q].counterError
    /\ req[p].response = req[q].response

\* C5: every finished request has been answered with a response; none ends
\* with its handler's promise rejected.
C5_EveryRequestAnswered ==
  \A p \in Procs : req[p].pc = "done" => req[p].response.kind = "response"

\* One of the job's range queries was rejected.
JobQueryRejected ==
  /\ job.pc \in {"err_insert", "err_update", "done"}
  /\ DOMAIN job.totals # JobQueries

\* The three query calls the job has issued.
JobIssued ==
  << QueryCall("yesterday", job.ranges.yesterday[1], job.ranges.yesterday[2]),
     QueryCall("last_7_days", job.ranges.last_7_days[1], job.ranges.last_7_days[2]),
     QueryCall("month_to_date", job.ranges.month_to_date[1], job.ranges.month_to_date[2]) >>

\* A step of the job's errors increment after a rejected query: the sums of
\* the job's day before and after it.
C6_ErrorsStep ==
  (job' # job /\ job.pc \in {"err_insert", "err_update"} /\ DOMAIN job.totals # JobQueries) =>
    LET before == queryTotals(table, job.today, job.today)
        after == queryTotals(table', job.today, job.today)
    IN  /\ after.update_checks = before.update_checks
        /\ after.downloads = before.downloads
        /\ after.errors \in {before.errors, before.errors + 1}
        /\ after.errors = before.errors + 1 => (job.pc = "err_update" /\ job'.pc = "done")
        /\ (job.pc = "err_update" /\ table' # table) => after.errors = before.errors + 1

\* C6: when a range query of the job fails, the job's calls are its three
\* queries followed by one incrementCounter(today, "errors") and no webhook
\* POST; that increment raises the errors counter of the job's day by exactly
\* one when its UPDATE succeeds and changes no counter otherwise, and the job
\* then returns.
C6_QueryFailureCountsOneError ==
  /\ [](JobQueryRejected =>
          /\ job.log = Append(JobIssued, IncCall(job.today, "errors"))
          /\ job.today = job.ranges.last_7_days[2]
          /\ (job.pc = "done" => job.outcome = "returned"))
  /\ [][C6_ErrorsStep]_vars

\* The job returned after a rejected query and its errors increment is the
\* only count of its day.
C6_Witness ==
  /\ JobQueryRejected /\ job.pc = "done"
  /\ queryTotals(table, job.today, job.today) =
       [update_checks |-> 0, downloads |-> 0, errors |-> 1]
  /\ \A p \in Procs : req[p].pc = "init"

\* C7: the scheduled job never ends with an error surfaced to its invoker:
\* it is running or has returned, it has returned exactly when it is done,
\* and while it is not done it is at a point from which it has a step to
\* take (waiting for a query only while one is pending).
C7_JobNeverThrows ==
  /\ job.outcome \in {"running", "returned"}
  /\ job.pc = "done" <=> job.outcome = "returned"
  /\ job.pc \in {"init", "queries", "post", "err_insert", "err_update", "done"}
  /\ job.pc = "queries" => job.pending # {}

\* The job returned although the webhook POST failed and the errors
\* increment that followed failed as well.
C7_Witness ==
  /\ job.pc = "done" /\ job.outcome = "returned"
  /\ job.log = JobIssued \o <<WebhookCall, IncCall(job.today, "errors")>>
  /\ Count(returned, <<job.today, "errors">>) = 0

\* The first day of the month of day key d.
MonthStartOf(d) == SubSeq(d, 1, 8) \o <<Ch0, Ch0 + 1>>

\* C8: the four ranges of a GET /report come from one day: the handler's
\* today is some day n, and the ranges are n..n, (n-1)..(n-1), (n-6)..n and
\* (first of n's month)..n.
C8_ReportRangesFromOneDay ==
  \A p \in Procs :
    DOMAIN req[p].ranges # {} =>
      \E n \in FirstDay..(FirstDay + MaxTicks) :
        /\ req[p].today = utcDay(n)
        /\ req[p].ranges.today = <<utcDay(n), utcDay(n)>>
        /\ req[p].ranges.yesterday = <<utcDay(n - 1), utcDay(n - 1)>>
        /\ req[p].ranges.last_7_days = <<utcDay(n - 6), utcDay(n)>>
        /\ req[p].ranges.month_to_date = <<MonthStartOf(utcDay(n)), utcDay(n)>>

\* The day key written YYYY-MM-DD.
DayKey(y, m, d) ==
  PadStart(y, 4) \o <<ChDash>> \o PadStart(m, 2) \o <<ChDash>> \o PadStart(d, 2)

\* s has the shape of a zero-padded day key: dddd-dd-dd.
IsDayKey(s) ==
  /\ Len(s) = 10
  /\ \A i \in 1..10 :
       IF i \in {5, 8} THEN s[i] = ChDash ELSE s[i] >= Ch0 /\ s[i] <= Ch0 + 9

\* C9: for every reference date of the job, yesterday is the day before
\* today, sevenDaysAgo the day six days before it, monthStart the first of
\* today's month (today itself on the 1st); all are zero-padded day keys and,
\* compared as strings, sevenDaysAgo <= yesterday < today and
\* monthStart <= today.
C9_JobWindows ==
  job.pc = "queries" =>
    LET yesterday == job.ranges.yesterday[1]
        sevenDaysAgo == job.ranges.last_7_days[1]
        monthStart == job.ranges.month_to_date[1]
    IN  /\ job.today = utcDay(now)
        /\ job.ranges.yesterday[2] = yesterday
        /\ job.ranges.last_7_days[2] = job.today
        /\ job.ranges.month_to_date[2] = job.today
        /\ yesterday = utcDay(now - 1)
        /\ sevenDaysAgo = utcDay(now - 6)
        /\ monthStart = MonthStartOf(job.today)
        /\ (getUTCDate(now) = 1 => monthStart = job.today)
        /\ IsDayKey(job.today) /\ IsDayKey(yesterday)
        /\ IsDayKey(sevenDaysAgo) /\ IsDayKey(monthStart)
        /\ StrLE(sevenDaysAgo, yesterday)
        /\ StrLT(yesterday, job.today)
        /\ StrLE(monthStart, job.today)

\* Reference date 2025-03-01: month start the same day, the other two
\* bounds in February.
C9_Witness ==
  /\ job.pc = "queries"
  /\ job.today = DayKey(2025, 3, 1)
  /\ job.ranges.month_to_date[1] = DayKey(2025, 3, 1)
  /\ job.ranges.yesterday[1] = DayKey(2025, 2, 28)
  /\ job.ranges.last_7_days[1] = DayKey(2025, 2, 23)

\* C10: for days a <= b < c the sums over [a, b] and over [day after b, c]
\* add up to the sum over [a, c] in each counter, and a sub-range that holds
\* no row sums to all zeros.
C10_RangeSumsAdd ==
  DOMAIN sums # {} =>
    /\ \A col \in Columns : sums.left[col] + sums.right[col] = sums.whole[col]
    /\ (\A r \in table : StrLT(r.day, sums.a) \/ StrLT(sums.b, r.day)) =>
         sums.left = ZeroTotals

\* Both sub-ranges hold counts.
C10_Witness ==
  /\ DOMAIN sums # {}
  /\ sums.left # ZeroTotals /\ sums.right # ZeroTotals
  /\ sums.whole.update_checks + sums.whole.downloads + sums.whole.errors = 2

\* Every row of t is still in u, with no counter lower than it was.
RowsKeptAndGrown(t, u) ==
  \A r \in t : \E r2 \in u :
    r2.day = r.day /\ \A c \in Columns : r2[c] >= r[c]

\* C11: with requests and the scheduled job interleaved and any statement
\* failing, the table never holds two rows of one day, every counter is a
\* natural number, and no step deletes a row or lowers a counter.
C11_RowsUniqueAndMonotone ==
  /\ [](/\ \A r1, r2 \in table : r1.day = r2.day => r1 = r2
        /\ \A r \in table : \A c \in Columns : r[c] \in Nat)
  /\ [][RowsKeptAndGrown(table, table')]_vars

\* The job and a request both counted an error on the same day: the second
\* INSERT met the row of the first.
C11_Witness ==
  /\ job.pc = "done"
  /\ \E p \in Procs : req[p].pc = "done" /\ req[p].today = job.today
  /\ \E r \in table : r.day = job.today /\ r.errors = 2

\* The values at the two paths of a manifest.
AtDownloadUrl(m) == OptGet(OptGet(OptGet(m, "latest"), "download"), "url")
AtLatestUrl(m) == OptGet(OptGet(m, "latest"), "url")
IsUrlString(v) == v.t = "string" /\ ParsesAsURL(v.s)
IsOtherString(v) == v.t = "string" /\ v.s # "" /\ ~ParsesAsURL(v.s)
RedirectTo(v) == [kind |-> "response", status |-> 302, body |-> [location |-> v.s]]
Unavailable == ErrorResponse(503, "manifest_unavailable")

\* A GET /download/latest that has finished with a manifest in hand.
Downloaded(r) ==
  /\ r.pc = "done" /\ r.pathname = "/download/latest"
  /\ Truthy(r.manifest)

CallsInOrder(r) ==
  LET primary == IncCall(r.today, IF r.pathname = "/update/check"
                                  THEN "update_checks" ELSE "downloads")
      errors == IncCall(r.today, "errors")
  IN  /\ r.pc \in {"inc_insert", "inc_update", "manifest"} =>
           r.log = <<primary>>
      /\ r.pc \in {"err_insert", "err_update"} =>
           r.counterError /\ r.log = <<primary, ManifestCall, errors>>
      /\ r.pc = "done" =>
           r.log = IF r.counterError THEN <<primary, ManifestCall, errors>>
                   ELSE <<primary, ManifestCall>>
      /\ r.pc # "done" => r.response = NoResponse

\* The step that ends the primary increment sets counterError exactly when
\* the call did not return.
FlagTellsFailure ==
  \A p \in Procs :
    req[p].pc \in {"inc_insert", "inc_update"} /\ req'[p].pc = "manifest" =>
      (req'[p].counterError <=> returned' = returned)

\* C13: a counting request makes its calls in this order and no others: the
\* primary increment, then the manifest fetch, then - exactly when the primary
\* increment failed - one errors increment, then the response.
C13_CallOrder ==
  /\ [](\A p \in Procs : IsCounting(req[p]) /\ req[p].pc # "init" =>
          CallsInOrder(req[p]))
  /\ [][FlagTellsFailure]_vars

\* A request whose primary increment failed is making its errors increment,
\* the manifest fetched and no response yet.
C13_Witness ==
  \E p \in Procs :
    /\ IsCounting(req[p]) /\ req[p].pc = "err_update"
    /\ req[p].fetched # NotFetched
    /\ Len(req[p].log) = 3

\* The job's calls once its three queries have resolved.
JobCallsAfterQueries ==
  /\ job.pc = "post" => job.log = JobIssued /\ job.posted = "not_posted"
  /\ job.pc \in {"err_insert", "err_update"} =>
       /\ job.posted \in {"bad_status", "network_error"}
       /\ job.log = JobIssued \o <<WebhookCall, IncCall(job.today, "errors")>>
  /\ job.pc = "done" =>
       job.log = IF job.posted = "ok"
                 THEN JobIssued \o <<WebhookCall>>
                 ELSE JobIssued \o <<WebhookCall, IncCall(job.today, "errors")>>

\* C14: after three successful range queries the job posts once; a POST that
\* fails or is answered with a non-success status is followed by exactly one
\* errors increment for the job's day, a successful POST by no write at all.
C14_OnePostOneErrorCount ==
  /\ [](DOMAIN job.totals = JobQueries => JobCallsAfterQueries)
  /\ [][job' # job /\ DOMAIN job.totals = JobQueries /\ table' # table
          => job.posted \in {"bad_status", "network_error"}]_vars

\* The webhook answered with a non-success status and the job counted it.
C14_Witness ==
  /\ job.pc = "done" /\ job.posted = "bad_status"
  /\ DOMAIN job.totals = JobQueries
  /\ \E r \in table : r.day = job.today /\ r.errors > 0

\* An authorized GET /report.
AuthorizedReport(r) ==
  r.method = "GET" /\ r.pathname = "/report" /\ r.pc # "init" /\ ~BadToken(r)

\* C15: an authorized GET /report answers nothing until its queries are
\* settled; it answers 200 with the four keys today, yesterday, last_7_days
\* and month_to_date only when all four queries resolved, and when one was
\* rejected the handler fails and returns no totals.
C15_NoPartialReport ==
  \A p \in Procs :
    LET r == req[p]
    IN  AuthorizedReport(r) =>
          /\ r.pc # "done" => r.response = NoResponse
          /\ r.pc = "done" /\ DOMAIN r.totals = ReportQueries =>
               /\ r.response.kind = "response" /\ r.response.status = 200
               /\ r.response.body = r.totals
               /\ DOMAIN r.response.body =
                    {"today", "yesterday", "last_7_days", "month_to_date"}
          /\ r.pc = "done" /\ DOMAIN r.totals # ReportQueries =>
               r.response = Thrown

\* Three queries had resolved when the fourth was rejected.
C15_Witness ==
  \E p \in Procs :
    /\ AuthorizedReport(req[p]) /\ req[p].pc = "done"
    /\ Cardinality(DOMAIN req[p].totals) = 3
    /\ req[p].response = Thrown

\* The three cases of an absent manifest: no response, a status outside
\* 200..299, a body that is not JSON.
ManifestAbsent(o) ==
  \/ o.kind = "network_error"
  \/ o.kind = "response" /\ (o.status < 200 \/ o.status > 299)
  \/ o.kind = "response" /\ ~o.body.json

\* C16: GET /update/check answers 503 manifest_unavailable exactly in the
\* three absent cases, and for every success status with a JSON body it
\* answers 200 with the value the body parsed to, whatever that value is.
C16_EveryJsonBodyServed ==
  \A p \in Procs :
    LET r == req[p]
    IN  r.pc = "done" /\ r.method = "GET" /\ r.pathname = "/update/check" =>
          IF ManifestAbsent(r.fetched)
          THEN r.response = ErrorResponse(503, "manifest_unavailable")
          ELSE r.response = [kind |-> "response", status |-> 200,
                             body |-> [json |-> r.fetched.body.value]]

\* u is t with a zero row added for day d, which t did not have.
RowAdded(t, u, d) ==
  /\ \A r \in t : r.day # d
  /\ u = t \cup {[day |-> d, update_checks |-> 0, downloads |-> 0, errors |-> 0]}

\* u is t with counter c of the row of day d one higher, all else equal.
RaisedByOne(t, u, d, c) ==
  \E r \in t : r.day = d /\ u = (t \ {r}) \cup {[r EXCEPT ![c] = @ + 1]}

\* What a step of request p may do to the table.
FrameOfStep(p) ==
  LET r == req[p]
      own == IF r.pathname = "/update/check" THEN "update_checks" ELSE "downloads"
  IN  /\ r.pc # "init" => req'[p].today = r.today
      /\ CASE r.pc \in {"inc_insert", "err_insert"} ->
                table' = table \/ RowAdded(table, table', r.today)
           [] r.pc = "inc_update" ->
                \/ table' = table
                \/ /\ RaisedByOne(table, table', r.today, own)
                   /\ ~req'[p].counterError
           [] r.pc = "err_update" ->
                \/ table' = table
                \/ /\ RaisedByOne(table, table', r.today, "errors")
                   /\ req'[p].pc = "done"
           [] OTHER -> table' = table
      /\ r.pc \in {"inc_insert", "inc_update", "err_insert", "err_update"} =>
           IsCounting(r)
      /\ r.pc \in {"err_insert", "err_update"} => r.counterError

\* C17: a step of a GET /update/check or GET /download/latest touches only
\* the row of the day the request read at its start: it adds that row with
\* zeros or raises one counter of it by one - the endpoint's own counter, or
\* errors only after the own increment failed - and every other row stays as
\* it was; steps of GET /report and of unrouted requests leave the table alone.
C17_OnlyTodaysRow ==
  [][\A p \in Procs : req'[p] # req[p] => FrameOfStep(p)]_vars

\* A request counted an error in its day's row while the row of another day
\* stood in the table.
C17_Witness ==
  \E p \in Procs :
    /\ IsCounting(req[p]) /\ req[p].pc = "done" /\ req[p].counterError
    /\ \E r \in table : r.day = req[p].today /\ r.errors = 1
    /\ \E r \in table : r.day # req[p].today /\ r.update_checks + r.downloads = 1

\* C18: in every 200 answer of GET /report each counter of today is at most
\* the same counter of last_7_days and of month_to_date, and each counter of
\* yesterday is at most the same counter of last_7_days.
C18_ReportTotalsConsistent ==
  \A p \in Procs :
    LET r == req[p]
    IN  (/\ r.pc = "done" /\ r.pathname = "/report"
         /\ r.response.kind = "response" /\ r.response.status = 200) =>
          \A c \in {"update_checks", "downloads", "errors"} :
            /\ r.response.body.today[c] <= r.response.body.last_7_days[c]
            /\ r.response.body.today[c] <= r.response.body.month_to_date[c]
            /\ r.response.body.yesterday[c] <= r.response.body.last_7_days[c]

====
